---- MODULE Spec2Model ----
(***************************************************************************)
(* Indicator engine of app.py: calculate_sma, calculate_rsi,               *)
(* calculate_macd and add_technical_indicators_to_df, with the pandas      *)
(* operations they are built from (rolling mean, ewm mean, diff, where,    *)
(* column assignment with index alignment, DataFrame.join), and the        *)
(* analysis run of the page that fetches a ticker, renders the company     *)
(* overview, assembles the indicators, draws the chart and the valuation.  *)
(*                                                                         *)
(* Numbers are float64 in the program.  Here a number is an exact          *)
(* fraction [n, d] with d > 0, and the three IEEE special values are       *)
(* d = 0: NaN = 0/0, +inf = 1/0, -inf = -1/0.  Rounding and the sign of    *)
(* zero are not modelled.                                                  *)
(*                                                                         *)
(* A Series is a sequence of numbers indexed by date 1..n; the empty       *)
(* Series pd.Series(dtype='float64') is << >>.  A DataFrame is a record    *)
(* [n, cols] : n dates, cols a function from column name to Series.        *)
(* Column names are sequences of characters so that the f-strings that     *)
(* build them are modelled by concatenation.                               *)
(***************************************************************************)
EXTENDS Integers, Sequences, FiniteSets, TLC

VARIABLES df, pc, fn, args, series_ret, macd_df, hist_data_ta,
          info, page, fig, exc

vars == <<df, pc, fn, args, series_ret, macd_df, hist_data_ta,
          info, page, fig, exc>>

-----------------------------------------------------------------------------
(* Bounds *)

\* dates of a frame handed to the assembly, and its periods
MaxRows == 2
MaxPeriod == 2
\* dates of a series handed to one calculator, and its windows
MaxLen == 3
MaxWindow == 3
BasePrice == 10

\* day-to-day moves of the close price: fall, flat, rise
Moves == {-1, 0, 1}

\* periods of an assembly call, the non-positive 0 included
Periods == 0..MaxPeriod

\* windows and periods of a direct call of one calculator
Windows == (-1)..MaxWindow

-----------------------------------------------------------------------------
(* float64 arithmetic *)

Abs(x) == IF x < 0 THEN -x ELSE x

Sign(x) == IF x > 0 THEN 1 ELSE IF x < 0 THEN -1 ELSE 0

RECURSIVE Gcd(_, _)
Gcd(a, b) == IF b = 0 THEN a ELSE Gcd(b, a % b)

Frac(n, d) ==
    LET g == Gcd(Abs(n), d)
    IN  [n |-> n \div g, d |-> d \div g]

Num(i) == [n |-> i, d |-> 1]

NaN == [n |-> 0, d |-> 0]

Inf(s) == [n |-> s, d |-> 0]

IsNaN(x) == x.d = 0 /\ x.n = 0

IsFinite(x) == x.d > 0

Neg(x) == [n |-> -x.n, d |-> x.d]

Add(x, y) ==
    IF IsNaN(x) \/ IsNaN(y) THEN NaN
    ELSE IF IsFinite(x) /\ IsFinite(y)
         THEN Frac(x.n * y.d + y.n * x.d, x.d * y.d)
    ELSE IF IsFinite(x) THEN y
    ELSE IF IsFinite(y) THEN x
    ELSE IF x.n = y.n THEN x ELSE NaN

Sub(x, y) == Add(x, Neg(y))

Mul(x, y) ==
    IF IsNaN(x) \/ IsNaN(y) THEN NaN
    ELSE IF IsFinite(x) /\ IsFinite(y) THEN Frac(x.n * y.n, x.d * y.d)
    ELSE IF Sign(x.n) * Sign(y.n) = 0 THEN NaN
    ELSE Inf(Sign(x.n) * Sign(y.n))

Div(x, y) ==
    IF IsNaN(x) \/ IsNaN(y) THEN NaN
    ELSE IF IsFinite(x) /\ IsFinite(y)
         THEN IF y.n = 0
              THEN IF x.n = 0 THEN NaN ELSE Inf(Sign(x.n))
              ELSE Frac(Sign(y.n) * x.n * y.d, x.d * Abs(y.n))
    ELSE IF IsFinite(x) THEN Num(0)
    ELSE IF IsFinite(y) THEN Inf(IF y.n < 0 THEN -x.n ELSE x.n)
    ELSE NaN

\* x > y and x < y of float64: FALSE when either side is NaN
Gt(x, y) ==
    /\ ~IsNaN(x) /\ ~IsNaN(y)
    /\ IF IsFinite(x) /\ IsFinite(y) THEN x.n * y.d > y.n * x.d
       ELSE IF IsFinite(x) THEN y.n < 0
       ELSE IF IsFinite(y) THEN x.n > 0
       ELSE x.n > y.n

Lt(x, y) == Gt(y, x)

Min(a, b) == IF a < b THEN a ELSE b

Max(a, b) == IF a > b THEN a ELSE b

-----------------------------------------------------------------------------
(* pandas Series operations *)

EmptySeries == << >>

\* faulty variant: the Series taken as it is, without alignment
ReindexNot(s, n) == s

\* alignment of a Series on n dates: a date the Series lacks becomes NaN
Reindex(s, n) == [t \in 1..n |-> IF t \in DOMAIN s THEN s[t] ELSE NaN]

\* running window sum as pandas keeps it: add the entering observation,
\* remove the one that leaves the window
RECURSIVE RollSum(_, _, _)
RollSum(s, window, t) ==
    IF t = 0 THEN Num(0)
    ELSE LET added == Add(RollSum(s, window, t - 1), s[t])
         IN  IF t > window THEN Sub(added, s[t - window]) ELSE added

\* series.rolling(window, min_periods).mean() on a Series without NaN
RollingMean(s, window, min_periods) ==
    [t \in 1..Len(s) |->
        LET nobs == Min(t, window)
        IN  IF nobs >= min_periods
            THEN Div(RollSum(s, window, t), Num(nobs))
            ELSE NaN]

\* series.diff()
Diff(s) ==
    [t \in 1..Len(s) |-> IF t = 1 THEN NaN ELSE Sub(s[t], s[t - 1])]

\* series.ewm(span=span, adjust=False).mean()
RECURSIVE EwmAt(_, _, _)
EwmAt(s, span, t) ==
    LET alpha == Frac(2, span + 1)
    IN  IF t = 1 THEN s[1]
        ELSE Add(Mul(Sub(Num(1), alpha), EwmAt(s, span, t - 1)),
                 Mul(alpha, s[t]))

EwmMean(s, span) == [t \in 1..Len(s) |-> EwmAt(s, span, t)]

-----------------------------------------------------------------------------
(* Column names *)

DigitChars == <<"0", "1", "2", "3", "4", "5", "6", "7", "8", "9">>

RECURSIVE Digits(_)
Digits(i) ==
    IF i < 10 THEN <<DigitChars[i + 1]>>
    ELSE Digits(i \div 10) \o <<DigitChars[(i % 10) + 1]>>

\* the text an f-string puts for an integer
Str(i) == IF i < 0 THEN <<"-">> \o Digits(-i) ELSE Digits(i)

Open == <<"O", "p", "e", "n">>

High == <<"H", "i", "g", "h">>

Low == <<"L", "o", "w">>

Close == <<"C", "l", "o", "s", "e">>

Volume == <<"V", "o", "l", "u", "m", "e">>

PriceColumns == {Open, High, Low, Close, Volume}

\* faulty variant: the period left out of the name
SmaNameBare(window) == <<"S", "M", "A">>

\* f'SMA_{sma_short_val}', f'SMA_{sma_long_val}'
SmaName(window) == <<"S", "M", "A", "_">> \o Str(window)

RsiName == <<"R", "S", "I">>

MacdSuffix(fast_period, slow_period, signal_period) ==
    <<"_">> \o Str(fast_period) \o <<"_">> \o Str(slow_period)
            \o <<"_">> \o Str(signal_period)

MacdLineName(fast_period, slow_period, signal_period) ==
    <<"M", "A", "C", "D">> \o MacdSuffix(fast_period, slow_period, signal_period)

MacdSignalName(fast_period, slow_period, signal_period) ==
    <<"M", "A", "C", "D", "s">> \o MacdSuffix(fast_period, slow_period, signal_period)

MacdHistName(fast_period, slow_period, signal_period) ==
    <<"M", "A", "C", "D", "h">> \o MacdSuffix(fast_period, slow_period, signal_period)

-----------------------------------------------------------------------------
(* Indicator calculators *)

\* faulty variant: the strict window of calculate_rsi used for the moving average
CalculateSmaStrict(series, window) ==
    IF window <= 0 THEN EmptySeries
    ELSE RollingMean(series, window, window)

CalculateSma(series, window) ==
    IF window <= 0 THEN EmptySeries
    ELSE RollingMean(series, window, 1)

\* delta.where(delta > 0, 0): the NaN of delta at the first date fails the
\* test and is replaced by 0 like every non-positive change
Gain(delta) ==
    [t \in 1..Len(delta) |-> IF Gt(delta[t], Num(0)) THEN delta[t] ELSE Num(0)]

\* faulty variant: the sign of the loss left as it is in delta
LossSigned(delta) ==
    [t \in 1..Len(delta) |-> IF Lt(delta[t], Num(0)) THEN delta[t] ELSE Num(0)]

\* -delta.where(delta < 0, 0)
Loss(delta) ==
    [t \in 1..Len(delta) |->
        Neg(IF Lt(delta[t], Num(0)) THEN delta[t] ELSE Num(0))]

\* faulty variant: the subtraction from 100 left out
RsiOfRsComplement(rs) == Div(Num(100), Add(Num(1), rs))

\* rsi = 100 - (100 / (1 + rs))
RsiOfRs(rs) == Sub(Num(100), Div(Num(100), Add(Num(1), rs)))

AvgGain(series, window) == RollingMean(Gain(Diff(series)), window, window)

AvgLoss(series, window) == RollingMean(Loss(Diff(series)), window, window)

\* faulty variant: a column of zeros, not an empty Series, for a window that does not fit
CalculateRsiZeros(series, window) ==
    IF window <= 0 \/ Len(series) < window THEN [t \in 1..Len(series) |-> Num(0)]
    ELSE [t \in 1..Len(series) |->
            RsiOfRs(Div(AvgGain(series, window)[t], AvgLoss(series, window)[t]))]

CalculateRsi(series, window) ==
    IF window <= 0 \/ Len(series) < window THEN EmptySeries
    ELSE LET gain == AvgGain(series, window)
             loss == AvgLoss(series, window)
         IN  [t \in 1..Len(series) |-> RsiOfRs(Div(gain[t], loss[t]))]

MacdLine(series, fast_period, slow_period) ==
    LET ema_fast == EwmMean(series, fast_period)
        ema_slow == EwmMean(series, slow_period)
    IN  [t \in 1..Len(series) |-> Sub(ema_fast[t], ema_slow[t])]

\* faulty variant: the difference taken the other way round
MacdHistogramReversed(macd_line, macd_signal_line) ==
    [t \in 1..Len(macd_line) |-> Sub(macd_signal_line[t], macd_line[t])]

MacdHistogram(macd_line, macd_signal_line) ==
    [t \in 1..Len(macd_line) |-> Sub(macd_line[t], macd_signal_line[t])]

\* a DataFrame: n dates and the named columns
Frame(n, cols) == [n |-> n, cols |-> cols]

CalculateMacd(series, fast_period, slow_period, signal_period) ==
    IF \/ fast_period <= 0 \/ slow_period <= 0 \/ signal_period <= 0
       \/ slow_period <= fast_period
    THEN Frame(0,
            MacdLineName(fast_period, slow_period, signal_period) :> EmptySeries
         @@ MacdSignalName(fast_period, slow_period, signal_period) :> EmptySeries
         @@ MacdHistName(fast_period, slow_period, signal_period) :> EmptySeries)
    ELSE LET macd_line == MacdLine(series, fast_period, slow_period)
             macd_signal_line == EwmMean(macd_line, signal_period)
             macd_histogram == MacdHistogram(macd_line, macd_signal_line)
         IN  Frame(Len(series),
                MacdLineName(fast_period, slow_period, signal_period) :> macd_line
             @@ MacdSignalName(fast_period, slow_period, signal_period) :> macd_signal_line
             @@ MacdHistName(fast_period, slow_period, signal_period) :> macd_histogram)

-----------------------------------------------------------------------------
(* Indicator assembly *)

\* faulty variant: df_ta = df, the same object under a second name
DfAlias(obj) == obj

\* df.copy(): the object the copy lives in, a new one
DfCopy(obj) == "df_ta"

\* frame[name] = series: the Series is aligned on the frame's dates
SetItem(frame, name, series) ==
    Frame(frame.n, (name :> Reindex(series, frame.n)) @@ frame.cols)

\* left.join(other): the dates of left; ValueError on a shared column name
JoinRaises(left, other) == (DOMAIN left.cols) \cap (DOMAIN other.cols) # {}

\* faulty variant: an inner join, which keeps the dates both frames have
JoinInner(left, other) ==
    Frame(Min(left.n, other.n),
          [c \in (DOMAIN left.cols) \cup (DOMAIN other.cols) |->
              IF c \in DOMAIN left.cols
              THEN Reindex(left.cols[c], Min(left.n, other.n))
              ELSE Reindex(other.cols[c], Min(left.n, other.n))])

Join(left, other) ==
    Frame(left.n,
          [c \in (DOMAIN left.cols) \cup (DOMAIN other.cols) |->
              IF c \in DOMAIN left.cols THEN left.cols[c]
              ELSE Reindex(other.cols[c], left.n)])

\* The call add_technical_indicators_to_df(df, ...) on the object store
\* {df, df_ta}: value is the frame returned, raised tells an exception left
\* the function instead, and df is the caller's frame after the call.
AddTechnicalIndicatorsToDf(frame, cfg) ==
    LET df_ta == DfCopy("df")
        s0 == [o \in {"df", "df_ta"} |-> frame]
        s1 == IF cfg.sma_short_visible
              THEN [s0 EXCEPT ![df_ta] =
                      SetItem(s0[df_ta], SmaName(cfg.sma_short_val),
                              CalculateSma(s0[df_ta].cols[Close], cfg.sma_short_val))]
              ELSE s0
        s2 == IF cfg.sma_long_visible
              THEN [s1 EXCEPT ![df_ta] =
                      SetItem(s1[df_ta], SmaName(cfg.sma_long_val),
                              CalculateSma(s1[df_ta].cols[Close], cfg.sma_long_val))]
              ELSE s1
        s3 == IF cfg.rsi_visible
              THEN [s2 EXCEPT ![df_ta] =
                      SetItem(s2[df_ta], RsiName,
                              CalculateRsi(s2[df_ta].cols[Close], cfg.rsi_window_val))]
              ELSE s2
        macd_indicators == CalculateMacd(s3[df_ta].cols[Close], cfg.macd_fast_val,
                                         cfg.macd_slow_val, cfg.macd_signal_val)
    IN  [raised |-> cfg.macd_visible /\ JoinRaises(s3[df_ta], macd_indicators),
         value  |-> IF cfg.macd_visible
                    THEN Join(s3[df_ta], macd_indicators)
                    ELSE s3[df_ta],
         df     |-> s3["df"]]

-----------------------------------------------------------------------------
(* The price series handed to the engine *)

\* close prices of n dates: BasePrice at the first, then one move a day
RECURSIVE CloseAt(_, _)
CloseAt(moves, t) == IF t = 1 THEN BasePrice ELSE CloseAt(moves, t - 1) + moves[t - 1]

CloseSeries(maxlen) ==
    UNION {{[t \in 1..n |-> Num(CloseAt(moves, t))] : moves \in [1..(n - 1) -> Moves]}
           : n \in 1..maxlen}

\* stock.history(): one row per date, the day opening at the close before
RawFrame(closes) ==
    LET open == [t \in 1..Len(closes) |-> IF t = 1 THEN closes[1] ELSE closes[t - 1]]
    IN  Frame(Len(closes),
              Open :> open
           @@ High :> [t \in 1..Len(closes) |->
                          IF Gt(open[t], closes[t]) THEN open[t] ELSE closes[t]]
           @@ Low :> [t \in 1..Len(closes) |->
                          IF Lt(open[t], closes[t]) THEN open[t] ELSE closes[t]]
           @@ Close :> closes
           @@ Volume :> [t \in 1..Len(closes) |-> Num(1000 * t)])

NoFrame == Frame(0, << >>)

NoArgs == [window |-> 0]

\* the periods an indicator is called with; the function does not read the
\* periods of an indicator that is switched off, so one value stands for all
PeriodsIf(visible) == IF visible THEN Periods ELSE {MaxPeriod}

-----------------------------------------------------------------------------
(* What an analysis run holds besides the frames *)

\* the company-info mapping with no key
NoInfo == << >>

\* the page with nothing rendered: element |-> the text put into it
BlankPage == << >>

\* the figure with no trace: the columns of hist_data_ta it draws
NoFigure == {}

\* no exception in flight: str(e) of the exception otherwise
NoException == << >>

runvars == <<info, page, fig, exc>>

\* no analysis run has rendered anything
NoRun ==
    /\ info = NoInfo
    /\ page = BlankPage
    /\ fig = NoFigure
    /\ exc = NoException

-----------------------------------------------------------------------------
(* Calls of the engine on one price series *)

\* the caller holds a fetched price series of at most maxlen dates
Fetched(maxlen) ==
    /\ df \in {RawFrame(closes) : closes \in CloseSeries(maxlen)}
    /\ pc = "idle"
    /\ fn = "none"
    /\ args = NoArgs
    /\ series_ret = EmptySeries
    /\ macd_df = NoFrame
    /\ hist_data_ta = NoFrame
    /\ NoRun

Init == Fetched(MaxRows)

InitCalc == Fetched(MaxLen)

\* the arguments of direct calls of calculate_sma and calculate_rsi
WindowArgs == {[window |-> window] : window \in Windows}

\* the arguments of direct calls of calculate_macd
MacdArgs ==
    {[fast_period |-> fast_period, slow_period |-> slow_period,
      signal_period |-> signal_period] :
        fast_period \in Windows, slow_period \in Windows, signal_period \in Windows}

\* the configurations of assembly calls
Configs ==
    UNION {{[sma_short_visible |-> v[1], sma_short_val |-> sma_short_val,
             sma_long_visible |-> v[2], sma_long_val |-> sma_long_val,
             rsi_visible |-> v[3], rsi_window_val |-> rsi_window_val,
             macd_visible |-> v[4], macd_fast_val |-> macd_fast_val,
             macd_slow_val |-> macd_slow_val, macd_signal_val |-> macd_signal_val] :
               sma_short_val \in PeriodsIf(v[1]), sma_long_val \in PeriodsIf(v[2]),
               rsi_window_val \in PeriodsIf(v[3]), macd_fast_val \in PeriodsIf(v[4]),
               macd_slow_val \in PeriodsIf(v[4]), macd_signal_val \in PeriodsIf(v[4])}
           : v \in BOOLEAN \X BOOLEAN \X BOOLEAN \X BOOLEAN}

\* the arguments function f can be called with now: any of them while the
\* caller holds no result, and the same ones once more while it holds the
\* result of a call of f
CallArgs(f, all) ==
    IF pc = "idle" THEN all
    ELSE IF fn = f THEN {args}
    ELSE {}

Called(f, a) ==
    /\ pc' = "returned"
    /\ fn' = f
    /\ args' = a

CallSma ==
    \E a \in CallArgs("calculate_sma", WindowArgs) :
       /\ series_ret' = CalculateSma(df.cols[Close], a.window)
       /\ Called("calculate_sma", a)
       /\ UNCHANGED <<df, macd_df, hist_data_ta>>
       /\ UNCHANGED runvars

CallRsi ==
    \E a \in CallArgs("calculate_rsi", WindowArgs) :
       /\ series_ret' = CalculateRsi(df.cols[Close], a.window)
       /\ Called("calculate_rsi", a)
       /\ UNCHANGED <<df, macd_df, hist_data_ta>>
       /\ UNCHANGED runvars

CallMacd ==
    \E a \in CallArgs("calculate_macd", MacdArgs) :
       /\ macd_df' = CalculateMacd(df.cols[Close], a.fast_period, a.slow_period,
                                   a.signal_period)
       /\ Called("calculate_macd", a)
       /\ UNCHANGED <<df, series_ret, hist_data_ta>>
       /\ UNCHANGED runvars

Assemble ==
    \E a \in CallArgs("add_technical_indicators_to_df", Configs) :
       /\ \E r \in {AddTechnicalIndicatorsToDf(df, a)} :
             /\ hist_data_ta' = IF r.raised THEN NoFrame ELSE r.value
             /\ df' = r.df
       /\ Called("add_technical_indicators_to_df", a)
       /\ UNCHANGED <<series_ret, macd_df>>
       /\ UNCHANGED runvars

\* the caller drops the result and is free to call again
Discard ==
    /\ pc = "returned"
    /\ pc' = "idle"
    /\ fn' = "none"
    /\ args' = NoArgs
    /\ series_ret' = EmptySeries
    /\ macd_df' = NoFrame
    /\ hist_data_ta' = NoFrame
    /\ df' = df
    /\ UNCHANGED runvars

Next == CallSma \/ CallRsi \/ CallMacd \/ Assemble \/ Discard

Spec == Init /\ [][Next]_vars

\* the calculators alone, on longer series
NextCalc == CallSma \/ CallRsi \/ CallMacd \/ Discard

SpecCalc == InitCalc /\ [][NextCalc]_vars

-----------------------------------------------------------------------------
(* Python values of the company info and their formatting *)

\* a value of the info dict: its type and the value, a number being a
\* fraction and a str a sequence of characters
PyInt(i) == [type |-> "int", val |-> Num(i)]

PyFloat(x) == [type |-> "float", val |-> x]

PyStr(s) == [type |-> "str", val |-> s]

None == [type |-> "NoneType", val |-> << >>]

\* isinstance(v, (int, float))
IsNumber(v) == v.type \in {"int", "float"}

\* the truth value of v in a condition
Truthy(v) ==
    IF v.type = "NoneType" THEN FALSE
    ELSE IF v.type = "str" THEN Len(v.val) > 0
    ELSE ~(IsFinite(v.val) /\ v.val.n = 0)

\* the last w digits of i, zeros included
RECURSIVE ZeroPadded(_, _)
ZeroPadded(i, w) ==
    IF w = 0 THEN << >>
    ELSE ZeroPadded(i \div 10, w - 1) \o <<DigitChars[(i % 10) + 1]>>

\* the digits of i >= 0 in groups of three
RECURSIVE Thousands(_)
Thousands(i) ==
    IF i < 1000 THEN Digits(i)
    ELSE Thousands(i \div 1000) \o <<",">> \o ZeroPadded(i % 1000, 3)

\* 10 ** k
RECURSIVE Pow10(_)
Pow10(k) == IF k = 0 THEN 1 ELSE 10 * Pow10(k - 1)

\* the integer nearest to x * 10 ** places, x finite (a tie goes away from
\* zero; the values of the model have none)
Scaled(x, places) ==
    Sign(x.n) * ((2 * Abs(x.n) * Pow10(places) + x.d) \div (2 * x.d))

\* round(x, places)
Round(x, places) == Frac(Scaled(x, places), Pow10(places))

\* f"{x:.2f}"
Fixed2(x) ==
    LET q == Scaled(x, 2)
    IN  (IF q < 0 THEN <<"-">> ELSE << >>)
        \o Digits(Abs(q) \div 100) \o <<".">> \o ZeroPadded(Abs(q) % 100, 2)

\* str(e) of the exception format(v, ',') raises
CommaError(v) ==
    IF v.type = "str"
    THEN <<"C", "a", "n", "n", "o", "t", " ", "s", "p", "e", "c", "i", "f", "y",
           " ", "'", ",", "'", " ", "w", "i", "t", "h", " ", "'", "s", "'", ".">>
    ELSE <<"u", "n", "s", "u", "p", "p", "o", "r", "t", "e", "d", " ",
           "f", "o", "r", "m", "a", "t", " ", "s", "t", "r", "i", "n", "g">>

\* f"{v:,}" raises: ValueError for a str, TypeError for None; a number is
\* formatted
CommaRaises(v) == v.type \in {"str", "NoneType"}

\* f"{v:,}" of an int
Comma(v) ==
    (IF v.val.n < 0 THEN <<"-">> ELSE << >>) \o Thousands(Abs(v.val.n))

\* f"{v}" of a str
Text(v) == v.val

Ticker == <<"A", "A", "P", "L">>

NA == <<"N", "/", "A">>

Hash == <<"#">>

-----------------------------------------------------------------------------
(* The company info a fetch returns *)

\* dates of the price history of an analysis run
RunRows == 1

\* the keys of stock.info the page reads
InfoKeys ==
    {"longName", "sector", "industry", "website", "fullTimeEmployees",
     "currentPrice", "previousClose", "marketCap", "longBusinessSummary",
     "trailingPE", "trailingEps", "priceToBook"}

\* marketCap is carried in millions of USD, which keeps 1e12 an integer of
\* 32 bits: 1e12, 1e9 and 1e6 USD
Trillion == 1000000
Billion == 1000
Million == 1

\* market capitalisations: none, and one for each unit the page shows
MarketCaps == {0, 5 * Million, 2500 * Million, 3 * Trillion}

\* the value a key has when the info holds it
InfoValue(k) ==
    CASE k = "longName" -> PyStr(<<"A", "p", "p", "l", "e">>)
      [] k = "sector" -> PyStr(<<"T", "e", "c", "h">>)
      [] k = "industry" -> PyStr(<<"P", "h", "o", "n", "e", "s">>)
      [] k = "website" -> PyStr(<<"a", ".", "c", "o">>)
      [] k = "fullTimeEmployees" -> PyInt(164000)
      [] k = "currentPrice" -> PyFloat(Frac(379, 2))
      [] k = "previousClose" -> PyInt(188)
      [] k = "longBusinessSummary" -> PyStr(<<"M", "a", "k", "e", "r">>)
      [] k = "trailingPE" -> PyFloat(Frac(61, 2))
      [] k = "trailingEps" -> PyFloat(Frac(31, 5))
      [] k = "priceToBook" -> PyFloat(Frac(9, 2))

\* stock.info with the keys `keys`
Info(keys, cap) ==
    [k \in keys |-> IF k = "marketCap" THEN PyInt(cap) ELSE InfoValue(k)]

\* stock.history(): no date at all, or up to RunRows dates
Histories == {EmptySeries} \cup CloseSeries(RunRows)

\* info.get(k, default)
InfoGet(k, default) == IF k \in DOMAIN info THEN info[k] ELSE default

\* x >= y of float64
Ge(x, y) == ~IsNaN(x) /\ ~IsNaN(y) /\ ~Lt(x, y)

\* the text of the market-cap metric
MarketCapText(market_cap_val) ==
    IF Truthy(market_cap_val) /\ IsNumber(market_cap_val)
    THEN IF Ge(market_cap_val.val, Num(Trillion))
         THEN Fixed2(Div(market_cap_val.val, Num(Trillion))) \o <<"T">>
         ELSE IF Ge(market_cap_val.val, Num(Billion))
         THEN Fixed2(Div(market_cap_val.val, Num(Billion))) \o <<"B">>
         ELSE IF Gt(market_cap_val.val, Num(0))
         THEN Fixed2(Div(market_cap_val.val, Num(Million))) \o <<"M">>
         ELSE NA
    ELSE NA

\* info.get('currentPrice', info.get('previousClose'))
CurrentPriceVal == InfoGet("currentPrice", InfoGet("previousClose", None))

\* the settings of the sidebar: one checkbox for both averages, and slider
\* values in the order of their defaults, the fast period of the MACD also
\* as long as the slow one
Sidebar ==
    {[sma_short_visible |-> v[1], sma_short_val |-> 1,
      sma_long_visible |-> v[1], sma_long_val |-> MaxPeriod,
      rsi_visible |-> v[2], rsi_window_val |-> MaxPeriod,
      macd_visible |-> v[3], macd_fast_val |-> macd_fast_val,
      macd_slow_val |-> MaxPeriod, macd_signal_val |-> 1] :
        v \in BOOLEAN \X BOOLEAN \X BOOLEAN, macd_fast_val \in {1, MaxPeriod}}

\* str(e) of the ValueError of DataFrame.join
JoinError ==
    <<"c", "o", "l", "u", "m", "n", "s", " ", "o", "v", "e", "r", "l", "a", "p">>

\* the columns the figure draws
Traces(frame, cfg) ==
         {Open, High, Low, Close, Volume}
    \cup (IF cfg.sma_short_visible
          THEN {SmaName(cfg.sma_short_val), SmaName(cfg.sma_long_val)}
                  \cap DOMAIN frame.cols
          ELSE {})
    \cup (IF cfg.rsi_visible THEN {RsiName} \cap DOMAIN frame.cols ELSE {})
    \cup (IF /\ cfg.macd_visible
             /\ MacdLineName(cfg.macd_fast_val, cfg.macd_slow_val, cfg.macd_signal_val)
                   \in DOMAIN frame.cols
          THEN {MacdLineName(cfg.macd_fast_val, cfg.macd_slow_val, cfg.macd_signal_val),
                MacdSignalName(cfg.macd_fast_val, cfg.macd_slow_val, cfg.macd_signal_val),
                MacdHistName(cfg.macd_fast_val, cfg.macd_slow_val, cfg.macd_signal_val)}
                  \cap DOMAIN frame.cols
          ELSE {})

\* the P/E part of the valuation; the number input returns its default
PerSection ==
    LET current_pe_raw_val == InfoGet("trailingPE", None)
        eps_current_raw_val == InfoGet("trailingEps", None)
    IN  IF /\ current_pe_raw_val.type # "NoneType"
           /\ eps_current_raw_val.type # "NoneType"
           /\ IsNumber(current_pe_raw_val) /\ IsNumber(eps_current_raw_val)
           /\ Gt(current_pe_raw_val.val, Num(0))
        THEN LET assumed_pe_val == Round(current_pe_raw_val.val, 1)
             IN     "per" :> Fixed2(current_pe_raw_val.val)
                 @@ "eps" :> Fixed2(eps_current_raw_val.val)
                 @@ (IF Gt(assumed_pe_val, Num(0))
                     THEN "per_price" :>
                             Fixed2(Mul(eps_current_raw_val.val, assumed_pe_val))
                     ELSE BlankPage)
        ELSE "per_warning" :> << >>

\* the P/B part of the valuation; the number input returns its default
PbrSection ==
    LET current_pbr_raw_val == InfoGet("priceToBook", None)
        has_pbr == Truthy(current_pbr_raw_val) /\ IsNumber(current_pbr_raw_val)
        book_value_per_share_calc_val ==
            IF /\ Truthy(CurrentPriceVal) /\ IsNumber(CurrentPriceVal)
               /\ has_pbr
            THEN PyFloat(Div(CurrentPriceVal.val, current_pbr_raw_val.val))
            ELSE None
        has_bps == /\ Truthy(book_value_per_share_calc_val)
                   /\ IsNumber(book_value_per_share_calc_val)
    IN  IF has_pbr
        THEN LET assumed_pbr_val ==
                     IF has_bps /\ Gt(current_pbr_raw_val.val, Num(0))
                     THEN Round(current_pbr_raw_val.val, 1)
                     ELSE Num(1)
             IN     "pbr" :> Fixed2(current_pbr_raw_val.val)
                 @@ (IF has_bps
                     THEN "bps" :> Fixed2(book_value_per_share_calc_val.val)
                     ELSE BlankPage)
                 @@ (IF has_bps /\ Gt(assumed_pbr_val, Num(0))
                     THEN "pbr_price" :>
                             Fixed2(Mul(book_value_per_share_calc_val.val,
                                        assumed_pbr_val))
                     ELSE "bps_warning" :> << >>)
        ELSE "pbr_warning" :> << >>

-----------------------------------------------------------------------------
(* The analysis run: the steps of the try block, pc the step reached *)

\* the button is pressed with a ticker in the sidebar
InitRun ==
    /\ df = NoFrame
    /\ pc = "idle"
    /\ fn = "none"
    /\ args = NoArgs
    /\ series_ret = EmptySeries
    /\ macd_df = NoFrame
    /\ hist_data_ta = NoFrame
    /\ NoRun

\* hist_data_raw, info, ... = get_stock_data(...)
GetStockData ==
    /\ pc = "idle"
    /\ \E keys \in SUBSET InfoKeys, cap \in MarketCaps, closes \in Histories :
          /\ info' = Info(keys, cap)
          /\ df' = RawFrame(closes)
    /\ pc' = "fetched"
    /\ UNCHANGED <<fn, args, series_ret, macd_df, hist_data_ta, page, fig, exc>>

\* if info is None or not info: st.error(...)
RunNoInfo ==
    /\ pc = "fetched"
    /\ DOMAIN info = {}
    /\ page' = page @@ "error_info" :> Ticker
    /\ pc' = "no_info"
    /\ UNCHANGED <<df, fn, args, series_ret, macd_df, hist_data_ta, info, fig, exc>>

\* elif hist_data_raw.empty: st.error(...)
RunNoPrices ==
    /\ pc = "fetched"
    /\ DOMAIN info # {}
    /\ df.n = 0
    /\ page' = page @@ "error_prices" :> Ticker
    /\ pc' = "no_prices"
    /\ UNCHANGED <<df, fn, args, series_ret, macd_df, hist_data_ta, info, fig, exc>>

\* the subheader and the left column of the overview; the f-string of the
\* markdown is evaluated before anything of it is rendered
RunOverview ==
    /\ pc = "fetched"
    /\ DOMAIN info # {}
    /\ df.n # 0
    /\ LET subheader == "subheader" :> Text(InfoGet("longName", PyStr(Ticker)))
           employees == InfoGet("fullTimeEmployees", PyStr(NA))
       IN  IF CommaRaises(employees)
           THEN /\ page' = page @@ subheader
                /\ exc' = CommaError(employees)
                /\ pc' = "raised"
           ELSE /\ page' = page @@ subheader
                            @@ "sector" :> Text(InfoGet("sector", PyStr(NA)))
                            @@ "industry" :> Text(InfoGet("industry", PyStr(NA)))
                            @@ "href" :> Text(InfoGet("website", PyStr(Hash)))
                            @@ "website" :> Text(InfoGet("website", PyStr(NA)))
                            @@ "employees" :> Comma(employees)
                /\ exc' = exc
                /\ pc' = "overview"
    /\ UNCHANGED <<df, fn, args, series_ret, macd_df, hist_data_ta, info, fig>>

\* the right column of the overview and the company description
RunMetrics ==
    /\ pc = "overview"
    /\ LET market_cap_val == InfoGet("marketCap", None)
           business_summary_val == InfoGet("longBusinessSummary", None)
       IN  page' = page
                @@ "price" :> (IF IsNumber(CurrentPriceVal)
                               THEN Fixed2(CurrentPriceVal.val) ELSE NA)
                @@ "market_cap" :> MarketCapText(market_cap_val)
                @@ (IF ~Truthy(business_summary_val)
                    THEN "no_summary" :> << >>
                    ELSE "summary" :> Text(business_summary_val))
    /\ pc' = "metrics"
    /\ UNCHANGED <<df, fn, args, series_ret, macd_df, hist_data_ta, info, fig, exc>>

\* hist_data_ta = add_technical_indicators_to_df(hist_data_raw.copy(), ...):
\* the function is handed a copy, so hist_data_raw stays as it is
RunAssemble ==
    /\ pc = "metrics"
    /\ \E a \in Sidebar :
          /\ \E r \in {AddTechnicalIndicatorsToDf(df, a)} :
                IF r.raised
                THEN /\ hist_data_ta' = hist_data_ta
                     /\ exc' = JoinError
                     /\ pc' = "raised"
                ELSE /\ hist_data_ta' = r.value
                     /\ exc' = exc
                     /\ pc' = "assembled"
          /\ fn' = "add_technical_indicators_to_df"
          /\ args' = a
    /\ UNCHANGED <<df, series_ret, macd_df, info, page, fig>>

\* the figure of candlesticks, volume and the indicator columns
RunChart ==
    /\ pc = "assembled"
    /\ fig' = Traces(hist_data_ta, args)
    /\ pc' = "charted"
    /\ UNCHANGED <<df, fn, args, series_ret, macd_df, hist_data_ta, info, page, exc>>

\* the valuation columns, after the financial tables, which read no info key
RunValuation ==
    /\ pc = "charted"
    /\ page' = page @@ PerSection @@ PbrSection
    /\ pc' = "valued"
    /\ UNCHANGED <<df, fn, args, series_ret, macd_df, hist_data_ta, info, fig, exc>>

\* except Exception as e: the three st.error lines, the first with str(e)
RunExcept ==
    /\ pc = "raised"
    /\ page' = page @@ "error" :> exc
    /\ pc' = "error"
    /\ UNCHANGED <<df, fn, args, series_ret, macd_df, hist_data_ta, info, fig, exc>>

NextRun ==
    \/ GetStockData \/ RunNoInfo \/ RunNoPrices \/ RunOverview \/ RunMetrics
    \/ RunAssemble \/ RunChart \/ RunValuation \/ RunExcept

SpecRun == InitRun /\ [][NextRun]_vars

-----------------------------------------------------------------------------
(* Vocabulary of the properties *)

AssembleReturned == pc = "returned" /\ fn = "add_technical_indicators_to_df"

MacdNames(fast_period, slow_period, signal_period) ==
    {MacdLineName(fast_period, slow_period, signal_period),
     MacdSignalName(fast_period, slow_period, signal_period),
     MacdHistName(fast_period, slow_period, signal_period)}

\* the columns the switched-on indicators of a configuration are to add
EnabledNames(cfg) ==
         (IF cfg.sma_short_visible THEN {SmaName(cfg.sma_short_val)} ELSE {})
    \cup (IF cfg.sma_long_visible THEN {SmaName(cfg.sma_long_val)} ELSE {})
    \cup (IF cfg.rsi_visible THEN {RsiName} ELSE {})
    \cup (IF cfg.macd_visible
          THEN MacdNames(cfg.macd_fast_val, cfg.macd_slow_val, cfg.macd_signal_val)
          ELSE {})

\* the indicator lines a configuration switches on: kind, line, periods
EnabledLines(cfg) ==
         (IF cfg.sma_short_visible
          THEN {[kind |-> "SMA", line |-> "short", periods |-> <<cfg.sma_short_val>>]}
          ELSE {})
    \cup (IF cfg.sma_long_visible
          THEN {[kind |-> "SMA", line |-> "long", periods |-> <<cfg.sma_long_val>>]}
          ELSE {})
    \cup (IF cfg.rsi_visible
          THEN {[kind |-> "RSI", line |-> "rsi", periods |-> <<cfg.rsi_window_val>>]}
          ELSE {})
    \cup (IF cfg.macd_visible
          THEN {[kind |-> "MACD", line |-> l,
                 periods |-> <<cfg.macd_fast_val, cfg.macd_slow_val, cfg.macd_signal_val>>]
                : l \in {"line", "signal", "histogram"}}
          ELSE {})

LineName(l) ==
    IF l.kind = "SMA" THEN SmaName(l.periods[1])
    ELSE IF l.kind = "RSI" THEN RsiName
    ELSE IF l.line = "line" THEN MacdLineName(l.periods[1], l.periods[2], l.periods[3])
    ELSE IF l.line = "signal" THEN MacdSignalName(l.periods[1], l.periods[2], l.periods[3])
    ELSE MacdHistName(l.periods[1], l.periods[2], l.periods[3])

InvalidMacd(fast_period, slow_period, signal_period) ==
    \/ fast_period <= 0 \/ slow_period <= 0 \/ signal_period <= 0
    \/ slow_period <= fast_period

AllNaN(series, n) == DOMAIN series = 1..n /\ \A t \in 1..n : IsNaN(series[t])

\* every column of frame a is a column of frame b, with the same values
ColumnsKept(a, b) ==
    \A c \in DOMAIN a.cols : c \in DOMAIN b.cols /\ b.cols[c] = a.cols[c]

-----------------------------------------------------------------------------
(* C1 *)

\* C1: add_technical_indicators_to_df never changes the frame it is given,
\* whatever the configuration, and the same call made once more on the same
\* frame returns the same augmented frame.
C1_InputUntouchedAndIdempotent ==
    [][/\ df' = df
       /\ (AssembleReturned /\ AssembleReturned' /\ args' = args)
             => hist_data_ta' = hist_data_ta]_vars

\* an assembly that added columns to its result while df has the price columns only
C1_Witness ==
    /\ AssembleReturned
    /\ args.sma_short_visible /\ args.rsi_visible /\ args.macd_visible
    /\ DOMAIN df.cols = PriceColumns
    /\ DOMAIN hist_data_ta.cols # PriceColumns

-----------------------------------------------------------------------------
(* C2 *)

\* C2 as stated: with periods a slider can give (all of them positive), the
\* switched-on lines of a configuration all have columns of their own, none
\* of them a price column: distinct (kind, line, periods) have distinct names.
C2_Original ==
    (/\ AssembleReturned
     /\ \A l \in EnabledLines(args) : \A i \in DOMAIN l.periods : l.periods[i] > 0) =>
        /\ \A l1, l2 \in EnabledLines(args) : l1 # l2 => LineName(l1) # LineName(l2)
        /\ \A l \in EnabledLines(args) : LineName(l) \notin PriceColumns
        /\ Cardinality(DOMAIN hist_data_ta.cols)
              = Cardinality(PriceColumns) + Cardinality(EnabledLines(args))

\* C2 amended: two switched-on lines share a column only when they are the
\* two SMA lines with the same period, and the column then holds the SMA of
\* that period; no line takes a price column; no other period gives the name
\* of an SMA column and no other triple the name of a MACD column.
C2_NamesCollideOnlyForEqualSma ==
    AssembleReturned =>
        /\ \A l1, l2 \in EnabledLines(args) :
              (l1 # l2 /\ LineName(l1) = LineName(l2))
                 => l1.kind = "SMA" /\ l2.kind = "SMA" /\ l1.periods = l2.periods
        /\ \A l \in EnabledLines(args) :
              /\ LineName(l) \notin PriceColumns
              /\ LineName(l) \in DOMAIN hist_data_ta.cols
              /\ l.kind = "SMA" =>
                    hist_data_ta.cols[LineName(l)]
                       = Reindex(CalculateSma(df.cols[Close], l.periods[1]), df.n)
              /\ l.kind = "SMA" =>
                    \A w \in Periods : SmaName(w) = LineName(l) => w = l.periods[1]
              /\ l.kind = "MACD" =>
                    \A f \in Periods, s \in Periods, g \in Periods :
                       LineName([l EXCEPT !.periods = <<f, s, g>>]) = LineName(l)
                          => <<f, s, g>> = l.periods

\* both SMA lines on with different periods, and MACD on
C2_Witness ==
    /\ AssembleReturned
    /\ args.sma_short_visible /\ args.sma_long_visible /\ args.macd_visible
    /\ args.sma_short_val # args.sma_long_val
    /\ SmaName(args.sma_short_val) \in DOMAIN hist_data_ta.cols
    /\ SmaName(args.sma_long_val) \in DOMAIN hist_data_ta.cols

-----------------------------------------------------------------------------
(* C3 *)

\* C3: the augmented frame has the price columns of the input, unchanged,
\* and exactly the columns of the switched-on indicators; every column has
\* one entry per date of the input.
C3_ColumnsFollowFlags ==
    AssembleReturned =>
        /\ hist_data_ta.n = df.n
        /\ DOMAIN hist_data_ta.cols = PriceColumns \cup EnabledNames(args)
        /\ \A c \in DOMAIN hist_data_ta.cols : DOMAIN hist_data_ta.cols[c] = 1..df.n
        /\ \A c \in PriceColumns : hist_data_ta.cols[c] = df.cols[c]

\* RSI off and absent, SMA and MACD on and present
C3_Witness ==
    /\ AssembleReturned
    /\ args.sma_short_visible /\ ~args.rsi_visible /\ args.macd_visible
    /\ RsiName \notin DOMAIN hist_data_ta.cols
    /\ SmaName(args.sma_short_val) \in DOMAIN hist_data_ta.cols
    /\ MacdNames(args.macd_fast_val, args.macd_slow_val, args.macd_signal_val)
          \subseteq DOMAIN hist_data_ta.cols

-----------------------------------------------------------------------------
(* C4 *)

\* C4: calculate_macd with slow <= fast or a non-positive period returns
\* three empty columns; an assembly with such a MACD returns a frame with
\* the dates of the input, the MACD columns undefined at every date, and
\* every other column as the assembly without MACD gives it.
C4_InvalidMacdLeavesTheRest ==
    /\ (/\ pc = "returned" /\ fn = "calculate_macd"
        /\ InvalidMacd(args.fast_period, args.slow_period, args.signal_period))
          => /\ macd_df.n = 0
             /\ DOMAIN macd_df.cols
                   = MacdNames(args.fast_period, args.slow_period, args.signal_period)
             /\ \A c \in DOMAIN macd_df.cols : macd_df.cols[c] = EmptySeries
    /\ (/\ AssembleReturned /\ args.macd_visible
        /\ InvalidMacd(args.macd_fast_val, args.macd_slow_val, args.macd_signal_val))
          => /\ hist_data_ta.n = df.n
             /\ ColumnsKept(AddTechnicalIndicatorsToDf(
                               df, [args EXCEPT !.macd_visible = FALSE]).value,
                            hist_data_ta)
             /\ EnabledNames(args) \subseteq DOMAIN hist_data_ta.cols
             /\ \A c \in MacdNames(args.macd_fast_val, args.macd_slow_val,
                                   args.macd_signal_val) :
                   AllNaN(hist_data_ta.cols[c], df.n)

\* an assembly with SMA, RSI and a MACD whose slow period is not above the fast
C4_Witness ==
    /\ AssembleReturned
    /\ args.sma_short_visible /\ args.rsi_visible /\ args.macd_visible
    /\ args.macd_fast_val > 0 /\ args.macd_signal_val > 0
    /\ args.macd_slow_val > 0 /\ args.macd_slow_val <= args.macd_fast_val
    /\ \E t \in 1..df.n : IsFinite(hist_data_ta.cols[RsiName][t])

-----------------------------------------------------------------------------
(* C5 *)

\* C5: calculate_rsi with a window longer than the series, or not positive,
\* returns the empty Series; an assembly with such an RSI returns a frame
\* with the dates of the input, the RSI column undefined at every date, and
\* every other column as the assembly without RSI gives it.
C5_ShortSeriesRsiLeavesTheRest ==
    /\ (/\ pc = "returned" /\ fn = "calculate_rsi"
        /\ (args.window <= 0 \/ df.n < args.window))
          => series_ret = EmptySeries
    /\ (/\ AssembleReturned /\ args.rsi_visible
        /\ (args.rsi_window_val <= 0 \/ df.n < args.rsi_window_val))
          => /\ hist_data_ta.n = df.n
             /\ ColumnsKept(AddTechnicalIndicatorsToDf(
                               df, [args EXCEPT !.rsi_visible = FALSE]).value,
                            hist_data_ta)
             /\ EnabledNames(args) \subseteq DOMAIN hist_data_ta.cols
             /\ AllNaN(hist_data_ta.cols[RsiName], df.n)

\* a series shorter than the RSI window, assembled with SMA and a valid MACD
C5_Witness ==
    /\ AssembleReturned
    /\ args.sma_short_visible /\ args.rsi_visible /\ args.macd_visible
    /\ args.sma_short_val > 0
    /\ 0 < args.rsi_window_val /\ df.n < args.rsi_window_val
    /\ ~InvalidMacd(args.macd_fast_val, args.macd_slow_val, args.macd_signal_val)
    /\ \A t \in 1..df.n :
          /\ IsFinite(hist_data_ta.cols[SmaName(args.sma_short_val)][t])
          /\ IsFinite(hist_data_ta.cols[MacdLineName(args.macd_fast_val,
                         args.macd_slow_val, args.macd_signal_val)][t])

-----------------------------------------------------------------------------
(* Vocabulary of the calculator properties *)

SmaReturned == pc = "returned" /\ fn = "calculate_sma"

RsiReturned == pc = "returned" /\ fn = "calculate_rsi"

MacdReturned == pc = "returned" /\ fn = "calculate_macd"

\* the close prices are whole numbers: their sum over the dates lo..hi
RECURSIVE CloseSum(_, _, _)
CloseSum(closes, lo, hi) ==
    IF hi < lo THEN 0 ELSE closes[hi].n + CloseSum(closes, lo, hi - 1)

\* x is the number sum / count
IsMean(x, sum, count) == IsFinite(x) /\ x.n * count = sum * x.d

StrictlyIncreasing(closes) ==
    \A t \in 2..Len(closes) : Gt(closes[t], closes[t - 1])

-----------------------------------------------------------------------------
(* C6 *)

\* C6 as stated: with a positive window that fits the series, the RSI is
\* undefined at each of the first `window` dates, while the SMA of the same
\* window is defined at every date.
C6_Original ==
    /\ (RsiReturned /\ args.window > 0 /\ df.n >= args.window)
          => \A t \in 1..args.window : IsNaN(series_ret[t])
    /\ (SmaReturned /\ args.window > 0)
          => \A t \in 1..df.n : IsFinite(series_ret[t])

-----------------------------------------------------------------------------
(* C7 *)

\* C7: every entry of the RSI that is not undefined is a number from 0 to 100.
C7_RsiWithinBounds ==
    RsiReturned =>
        \A t \in DOMAIN series_ret :
           ~IsNaN(series_ret[t])
              => /\ IsFinite(series_ret[t])
                 /\ 0 <= series_ret[t].n
                 /\ series_ret[t].n <= 100 * series_ret[t].d

\* a series that rises and falls: the RSI is 100 where the average loss is 0
\* and strictly between 0 and 100 at another date
C7_Witness ==
    /\ RsiReturned
    /\ \E t \in DOMAIN series_ret :
          /\ series_ret[t] = Num(100)
          /\ AvgLoss(df.cols[Close], args.window)[t] = Num(0)
    /\ \E t \in DOMAIN series_ret :
          /\ Gt(series_ret[t], Num(0))
          /\ Lt(series_ret[t], Num(100))

-----------------------------------------------------------------------------
(* C8 *)

\* C8: on strictly increasing closes the average loss is 0, the average gain
\* is positive and the RSI is 100 at every date where the RSI is defined;
\* on any closes the RSI is undefined where both averages are 0.
C8_RisingSeriesSaturates ==
    (RsiReturned /\ args.window > 0 /\ df.n >= args.window) =>
        \A t \in 1..df.n :
           /\ (StrictlyIncreasing(df.cols[Close]) /\ ~IsNaN(series_ret[t]))
                 => /\ AvgLoss(df.cols[Close], args.window)[t] = Num(0)
                    /\ Gt(AvgGain(df.cols[Close], args.window)[t], Num(0))
                    /\ series_ret[t] = Num(100)
           /\ (/\ AvgGain(df.cols[Close], args.window)[t] = Num(0)
               /\ AvgLoss(df.cols[Close], args.window)[t] = Num(0))
                 => IsNaN(series_ret[t])

\* three rising closes with window 2: the RSI is defined at the last two dates
C8_Witness ==
    /\ RsiReturned
    /\ args.window = 2
    /\ df.n = 3
    /\ StrictlyIncreasing(df.cols[Close])
    /\ series_ret[2] = Num(100)
    /\ series_ret[3] = Num(100)

-----------------------------------------------------------------------------
(* C9 *)

\* C9: with a positive window the SMA has one entry per date, each the mean
\* of the last min(t, window) closes up to that date (t counted from 1), so
\* 10, 10.5, 11 for the closes 10, 11, 12 and window 3; with a window that is
\* not positive it is the empty Series.
C9_SmaIsMeanOfAvailable ==
    SmaReturned =>
        /\ args.window > 0 =>
              /\ DOMAIN series_ret = 1..df.n
              /\ \A t \in 1..df.n :
                    IsMean(series_ret[t],
                           CloseSum(df.cols[Close], Max(1, t - args.window + 1), t),
                           Min(t, args.window))
        /\ (args.window = 3 /\ df.cols[Close] = <<Num(10), Num(11), Num(12)>>)
              => series_ret = <<Num(10), Frac(21, 2), Num(11)>>
        /\ args.window <= 0 => series_ret = EmptySeries

\* a window of 2 over three dates whose closes move: the second entry is the
\* mean of the first two closes, and the first close has left the window at
\* the third date
C9_Witness ==
    /\ SmaReturned
    /\ args.window = 2
    /\ df.n = 3
    /\ series_ret[2].d = 2
    /\ series_ret[3] # series_ret[2]

-----------------------------------------------------------------------------
(* C10 *)

\* C10: with slow > fast > 0 and signal > 0 the MACD line, the signal and the
\* histogram have a number at every date of the series, however short; line
\* and signal start at 0 (each average starts at the first close); and the
\* histogram is the line minus the signal at every date.
C10_MacdDefinedEverywhere ==
    (/\ MacdReturned
     /\ ~InvalidMacd(args.fast_period, args.slow_period, args.signal_period)) =>
        LET line == macd_df.cols[MacdLineName(args.fast_period, args.slow_period,
                                               args.signal_period)]
            signal == macd_df.cols[MacdSignalName(args.fast_period, args.slow_period,
                                                  args.signal_period)]
            histogram == macd_df.cols[MacdHistName(args.fast_period, args.slow_period,
                                                   args.signal_period)]
        IN  /\ macd_df.n = df.n
            /\ DOMAIN line = 1..df.n
            /\ DOMAIN signal = 1..df.n
            /\ DOMAIN histogram = 1..df.n
            /\ line[1] = Num(0)
            /\ signal[1] = Num(0)
            /\ \A t \in 1..df.n :
                  /\ IsFinite(line[t]) /\ IsFinite(signal[t]) /\ IsFinite(histogram[t])
                  /\ histogram[t] = Sub(line[t], signal[t])

\* a series shorter than the slow period with a histogram that is not 0
C10_Witness ==
    /\ MacdReturned
    /\ ~InvalidMacd(args.fast_period, args.slow_period, args.signal_period)
    /\ df.n < args.slow_period
    /\ \E t \in 1..df.n :
          macd_df.cols[MacdHistName(args.fast_period, args.slow_period,
                                    args.signal_period)][t].n # 0

-----------------------------------------------------------------------------
(* C11 *)

\* the fetch of the run succeeded with some price and some company info
FetchedBoth == pc # "idle" /\ DOMAIN info # {} /\ df.n # 0

\* the page shows the optional value of key k as not available
NotAvailable(k) ==
    CASE k = "longName" -> page["subheader"] = Ticker
      [] k \in {"sector", "industry", "website"} -> page[k] = NA
      [] k = "fullTimeEmployees" -> page["employees"] = NA
      [] k = "currentPrice" ->
            "previousClose" \in DOMAIN info \/ page["price"] = NA
      [] k = "marketCap" -> page["market_cap"] = NA
      [] k \in {"trailingPE", "trailingEps"} -> "per_warning" \in DOMAIN page
      [] k = "priceToBook" -> "pbr_warning" \in DOMAIN page
      [] OTHER -> TRUE

\* an exception left the try block only where the employee count is missing
RaisedOnlyWithoutEmployees ==
    pc \in {"raised", "error"} =>
        /\ "fullTimeEmployees" \notin DOMAIN info
        /\ hist_data_ta = NoFrame /\ fig = NoFigure

\* with the employee count in the info, every other key missing or not in
\* any combination, the run is never fatal and shows each missing key as
\* not available
OtherKeysNotFatal ==
    (FetchedBoth /\ "fullTimeEmployees" \in DOMAIN info) =>
        /\ pc \notin {"raised", "error"}
        /\ pc = "valued" =>
              /\ fig # NoFigure
              /\ \A k \in InfoKeys \ DOMAIN info : NotAvailable(k)

\* C11: after a fetch with a non-empty price series and a non-empty company
\* info, whichever optional keys are missing, the run never enters the
\* unexpected-error path, and once it is through, the chart is drawn and
\* every missing key is shown as not available.
C11_Original ==
    FetchedBoth =>
        /\ pc \notin {"raised", "error"}
        /\ pc = "valued" =>
              /\ fig # NoFigure
              /\ \A k \in InfoKeys \ DOMAIN info : NotAvailable(k)

====
